---------------------------- MODULE Spec2Model ----------------------------
(***************************************************************************)
(* Model of wasm::RootResolver (include/wasm/RootResolver.h): the import   *)
(* resolver that classifies a module's toolchain, rewrites its memory and  *)
(* table limits, instantiates the intrinsic modules, patches the           *)
(* Emscripten mutable globals and resolves imports by name and type.       *)
(***************************************************************************)
EXTENDS Integers, Sequences, FiniteSets, TLC

(***************************************************************************)
(* Bounds of the model.                                                    *)
(***************************************************************************)
\* Number of setUp calls made on one resolver.
MaxSetUps == 2

(***************************************************************************)
(* Program constants (RootResolver.h:15-56).                               *)
(***************************************************************************)
numBytesPerPage == 65536
ONE_MB_PAGES == 16
ONE_GB_PAGES == 1024 * ONE_MB_PAGES
INITIAL_MEMORY_PAGES == 15 * ONE_MB_PAGES
MAX_MEMORY_PAGES == ONE_GB_PAGES
EMSCRIPTEN_MIN_TABLE_ELEMS == 40000000
EMSCRIPTEN_MAX_TABLE_ELEMS == 60000000
\* Mutant: the initial Emscripten memory is one MiB, the factor 1024 dropped.
INITIAL_EMSCRIPTEN_PAGES_OneMb == ONE_MB_PAGES
INITIAL_EMSCRIPTEN_PAGES == 1024 * ONE_MB_PAGES
MAX_EMSCRIPTEN_PAGES == 2048 * ONE_GB_PAGES
EMSCRIPTEN_STACKTOP == 64 * numBytesPerPage
EMSCRIPTEN_STACK_MAX == 256 * numBytesPerPage
MutableGlobalsAddress == 63 * numBytesPerPage
StdErr == 1
StdIn == 2
StdOut == 3

(***************************************************************************)
(* Runtime objects and extern types.  An object carries its kind and the   *)
(* parts of its type that isA compares: a signature for functions and      *)
(* globals, size limits for memories and tables.                           *)
(***************************************************************************)
Null == [kind |-> "null", name |-> "", sig |-> 0, min |-> 0, max |-> 0, id |-> 0]

Function(name, sig) ==
    [kind |-> "function", name |-> name, sig |-> sig, min |-> 0, max |-> 0, id |-> 0]
Global(name, sig) ==
    [kind |-> "global", name |-> name, sig |-> sig, min |-> 0, max |-> 0, id |-> 0]
MemoryObject(name, size, id) ==
    [kind |-> "memory", name |-> name, sig |-> 0, min |-> size.min, max |-> size.max, id |-> id]
TableObject(name, size, id) ==
    [kind |-> "table", name |-> name, sig |-> 0, min |-> size.min, max |-> size.max, id |-> id]

FunctionType(sig) == [kind |-> "function", sig |-> sig, min |-> 0, max |-> 0]
GlobalType(sig) == [kind |-> "global", sig |-> sig, min |-> 0, max |-> 0]
MemoryType(min, max) == [kind |-> "memory", sig |-> 0, min |-> min, max |-> max]
TableType(min, max) == [kind |-> "table", sig |-> 0, min |-> min, max |-> max]

\* isA(object, type): same kind, and the object's type is a subtype of the
\* declared one (equal signature; size limits within the declared limits).
isA(object, type) ==
    /\ object.kind = type.kind
    /\ IF type.kind \in {"memory", "table"}
       THEN object.min >= type.min /\ object.max <= type.max
       ELSE object.sig = type.sig

(***************************************************************************)
(* The four intrinsic collections, as export name -> object.               *)
(***************************************************************************)
getIntrinsicModule_env ==
    [n \in {"memcpy", "puts"} |->
        IF n = "memcpy" THEN Function("env.memcpy", 1) ELSE Function("env.puts", 2)]
getIntrinsicModule_emEnv ==
    [n \in {"memcpy", "abort"} |->
        IF n = "memcpy" THEN Function("emEnv.memcpy", 1) ELSE Function("emEnv.abort", 2)]
getIntrinsicModule_emAsm2wasm ==
    [n \in {"f64-to-int"} |-> Function("emAsm2wasm.f64-to-int", 2)]
getIntrinsicModule_emGlobal ==
    [n \in {"NaN", "Infinity"} |->
        IF n = "NaN" THEN Global("emGlobal.NaN", 2) ELSE Global("emGlobal.Infinity", 2)]

(***************************************************************************)
(* Module instances.  A GCPointer<ModuleInstance> is either empty or holds *)
(* an instance: its debug name, its place in the compartment and its       *)
(* export map.                                                             *)
(***************************************************************************)
NoExports == [n \in {} |-> Null]
NullHandle == [name |-> "", id |-> 0, exports |-> NoExports]

\* Mutant: the extra exports are not passed on to the instance.
instantiateModule_NoExtraExports(comp, intrinsicModule, debugName, extraExports) ==
    [name |-> debugName, id |-> Len(comp.instances) + 1, exports |-> intrinsicModule]

\* Intrinsics::instantiateModule(compartment, intrinsicModule, debugName, extraExports)
instantiateModule(comp, intrinsicModule, debugName, extraExports) ==
    [name |-> debugName, id |-> Len(comp.instances) + 1,
     exports |-> extraExports @@ intrinsicModule]

\* getInstanceExport(moduleInstance, exportName) on a non-empty handle.
getInstanceExport(moduleInstance, exportName) ==
    IF exportName \in DOMAIN moduleInstance.exports
    THEN moduleInstance.exports[exportName]
    ELSE Null

(***************************************************************************)
(* The IR::Module handed to setUp: its memory definitions, memory imports  *)
(* and table imports, each a list of declared size limits.                 *)
(***************************************************************************)
DeclaredSizes == {[min |-> 1, max |-> 2], [min |-> 300, max |-> 70000]}
\* A WebAssembly module has at most one memory, defined or imported, and at
\* most one table.
SizeLists == {<<>>} \cup {<<s>> : s \in DeclaredSizes}
Modules ==
    {m \in [memDefs : SizeLists, memImports : SizeLists, tableImports : SizeLists] :
        m.memDefs = <<>> \/ m.memImports = <<>>}

\* The layout of struct MutableGlobals (RootResolver.h:45-49): each member's
\* size and alignment in bytes (U32, F64, I32, I32, I32).
MutableGlobalsMembers ==
    << [name |-> "DYNAMICTOP_PTR", size |-> 4, align |-> 4],
       [name |-> "tempDoublePtr", size |-> 8, align |-> 8],
       [name |-> "_stderr", size |-> 4, align |-> 4],
       [name |-> "_stdin", size |-> 4, align |-> 4],
       [name |-> "_stdout", size |-> 4, align |-> 4] >>
AlignUp(x, a) == ((x + a - 1) \div a) * a
\* The offset just past the first n members, each placed at its alignment.
RECURSIVE EndOfMember(_, _)
EndOfMember(members, n) ==
    IF n = 0 THEN 0
    ELSE AlignUp(EndOfMember(members, n - 1), members[n].align) + members[n].size
RECURSIVE MaxAlign(_, _)
MaxAlign(members, n) ==
    IF n = 0 THEN 1
    ELSE LET rest == MaxAlign(members, n - 1)
         IN IF members[n].align > rest THEN members[n].align ELSE rest
\* sizeof(struct): the end of the last member rounded up to the struct's alignment.
SizeOf(members) ==
    AlignUp(EndOfMember(members, Len(members)), MaxAlign(members, Len(members)))

\* The MutableGlobals struct (RootResolver.h:40-50) in freshly created memory.
ZeroGlobals ==
    [DYNAMICTOP_PTR |-> 0, tempDoublePtr |-> 0, _stderr |-> 0, _stdin |-> 0, _stdout |-> 0]
\* Byte offsets of a memory at which the model keeps a MutableGlobals-sized block.
BlockAddresses == {MutableGlobalsAddress, EMSCRIPTEN_STACKTOP}

\* Runtime::createMemory / Runtime::createTable: a new object of the given type.
createMemory(comp, size, debugName) ==
    [size |-> size, name |-> debugName, data |-> [a \in BlockAddresses |-> ZeroGlobals]]
createTable(comp, size, debugName) ==
    [size |-> size, name |-> debugName]

EmptyCompartment == [memories |-> <<>>, tables |-> <<>>, instances |-> <<>>]

(***************************************************************************)
(* State.                                                                  *)
(***************************************************************************)
VARIABLES
    isEmscripten,       \* RootResolver::isEmscripten
    envModule,          \* RootResolver::envModule
    emEnvModule,        \* RootResolver::emEnvModule
    emAsm2wasmModule,   \* RootResolver::emAsm2wasmModule
    emGlobalModule,     \* RootResolver::emGlobalModule
    user,               \* RootResolver::user
    module,             \* the IR::Module last handed to setUp (rewritten in place)
    compartment,        \* the objects created in the Runtime::Compartment
    pc,                 \* "ready" for a call, "returned" from one, "crashed" in one
    call,               \* the most recent call and its arguments
    steps,              \* the member functions and lookups that call ran, in order
    ret,                \* what the most recent resolve returned
    resolved,           \* the `resolved` out-parameter after the most recent resolve
    log,                \* the diagnostics the most recent call emitted, in order
    nSetUps             \* setUp calls made so far

vars == <<isEmscripten, envModule, emEnvModule, emAsm2wasmModule, emGlobalModule,
          user, module, compartment, pc, call, steps, ret, resolved, log, nSetUps>>

\* The part of the state setUp works on, as one record.
St ==
    [isEmscripten |-> isEmscripten, envModule |-> envModule,
     emEnvModule |-> emEnvModule, emAsm2wasmModule |-> emAsm2wasmModule,
     emGlobalModule |-> emGlobalModule, module |-> module,
     compartment |-> compartment, pc |-> pc, steps |-> <<>>]

(***************************************************************************)
(* setUpStandardToolchain (RootResolver.h:90-96).                          *)
(***************************************************************************)
\* Mutant: the ceiling is written from the initial page count.
StandardSize_MaxFromInitial == [min |-> INITIAL_MEMORY_PAGES, max |-> INITIAL_MEMORY_PAGES]

StandardSize == [min |-> INITIAL_MEMORY_PAGES, max |-> MAX_MEMORY_PAGES]

\* Mutant: the standard path instantiates the Emscripten env collection.
setUpStandardToolchain_EmEnv(st, m) ==
    LET m1 == [m EXCEPT !.memDefs[1] = [min |-> INITIAL_MEMORY_PAGES, max |-> MAX_MEMORY_PAGES]]
        inst == instantiateModule(st.compartment, getIntrinsicModule_emEnv, "env", NoExports)
    IN [st EXCEPT !.module = m1,
                  !.envModule = inst,
                  !.compartment.instances = Append(@, inst),
                  !.steps = Append(@, "setUpStandardToolchain")]

setUpStandardToolchain(st, m) ==
    LET m1 == [m EXCEPT !.memDefs[1] = StandardSize]
        inst == instantiateModule(st.compartment, getIntrinsicModule_env, "env", NoExports)
    IN [st EXCEPT !.module = m1,
                  !.envModule = inst,
                  !.compartment.instances = Append(@, inst),
                  !.steps = Append(@, "setUpStandardToolchain")]

(***************************************************************************)
(* setUpEmscripten (RootResolver.h:98-128).  imports[0] of an empty import *)
(* list is an out-of-range access: `ub` picks what the build does there,   *)
(* abort ("crash") or carry on with the out-of-range storage ("continue"). *)
(***************************************************************************)
\* Mutant: the memory ceiling is 2048 MiB-pages rather than 2048 GiB-pages.
EmscriptenMemorySize_MaxInMb ==
    [min |-> INITIAL_EMSCRIPTEN_PAGES, max |-> 2048 * ONE_MB_PAGES]

EmscriptenMemorySize == [min |-> INITIAL_EMSCRIPTEN_PAGES, max |-> MAX_EMSCRIPTEN_PAGES]
\* Mutant: the two table constants are written the wrong way round.
EmscriptenTableSize_Swapped ==
    [min |-> EMSCRIPTEN_MAX_TABLE_ELEMS, max |-> EMSCRIPTEN_MIN_TABLE_ELEMS]
EmscriptenTableSize == [min |-> EMSCRIPTEN_MIN_TABLE_ELEMS, max |-> EMSCRIPTEN_MAX_TABLE_ELEMS]
UBOutcomes == {"crash", "continue"}

\* Mutant: mutableGlobals is a copy, not a reference, so memory is not written.
patchMutableGlobals_ByValue(memory) == memory

\* Lines 122-127: the write through memoryRef<MutableGlobals>(memory, address).
patchMutableGlobals(memory) ==
    [memory EXCEPT !.data[MutableGlobalsAddress] =
        [@ EXCEPT !.DYNAMICTOP_PTR = EMSCRIPTEN_STACK_MAX,
                  !._stderr = StdErr,
                  !._stdin = StdIn,
                  !._stdout = StdOut]]

setUpEmscripten(st, m, ub) ==
    LET hasMem == m.memImports # <<>>
        hasTab == m.tableImports # <<>>
        \* lines 100-101
        m1 == IF hasMem THEN [m EXCEPT !.memImports[1] = EmscriptenMemorySize] ELSE m
        \* lines 103-104
        m2 == IF hasTab THEN [m1 EXCEPT !.tableImports[1] = EmscriptenTableSize] ELSE m1
        entered == [st EXCEPT !.steps = Append(@, "setUpEmscripten")]
    IN
    IF ~hasMem /\ ub = "crash"
    THEN [entered EXCEPT !.module = m, !.pc = "crashed"]
    ELSE IF ~hasTab /\ ub = "crash"
    THEN [entered EXCEPT !.module = m1, !.pc = "crashed"]
    ELSE
    LET comp == st.compartment
        \* the types the two create calls read back from imports[0]
        memSize == IF hasMem THEN m2.memImports[1] ELSE EmscriptenMemorySize
        tabSize == IF hasTab THEN m2.tableImports[1] ELSE EmscriptenTableSize
        memory == createMemory(comp, memSize, "env.memory")
        table == createTable(comp, tabSize, "env.table")
        memId == Len(comp.memories) + 1
        tabId == Len(comp.tables) + 1
        extraEnvExports ==
            [n \in {"memory", "table"} |->
                IF n = "memory" THEN MemoryObject("env.memory", memSize, memId)
                                ELSE TableObject("env.table", tabSize, tabId)]
        emEnv == instantiateModule(comp, getIntrinsicModule_emEnv, "env", extraEnvExports)
        comp1 == [comp EXCEPT !.instances = Append(@, emEnv)]
        emAsm == instantiateModule(comp1, getIntrinsicModule_emAsm2wasm, "emAsm2wasm", NoExports)
        comp2 == [comp1 EXCEPT !.instances = Append(@, emAsm)]
        emGlobal == instantiateModule(comp2, getIntrinsicModule_emGlobal, "emGlobal", NoExports)
        comp3 == [comp2 EXCEPT !.instances = Append(@, emGlobal),
                               !.memories = Append(@, patchMutableGlobals(memory)),
                               !.tables = Append(@, table)]
    IN [entered EXCEPT !.module = m2,
                       !.emEnvModule = emEnv,
                       !.emAsm2wasmModule = emAsm,
                       !.emGlobalModule = emGlobal,
                       !.compartment = comp3]

(***************************************************************************)
(* setUp (RootResolver.h:77-88).                                           *)
(***************************************************************************)
\* Mutant: the standard branch leaves isEmscripten at whatever it was.
setUp_FlagNotReset(st, m, ub) ==
    IF m.memDefs # <<>>
    THEN setUpStandardToolchain(st, m)
    ELSE setUpEmscripten([st EXCEPT !.isEmscripten = TRUE], m, ub)

setUp(st, m, ub) ==
    IF m.memDefs # <<>>
    THEN setUpStandardToolchain([st EXCEPT !.isEmscripten = FALSE], m)
    ELSE setUpEmscripten([st EXCEPT !.isEmscripten = TRUE], m, ub)

EmptyModule == [memDefs |-> <<>>, memImports |-> <<>>, tableImports |-> <<>>]
NoCall == [op |-> "none", moduleName |-> "", exportName |-> "",
           type |-> FunctionType(0), resolvedIn |-> Null, module |-> EmptyModule]

SetUp(m, ub) ==
    /\ pc = "ready"
    /\ nSetUps < MaxSetUps
    /\ LET st == setUp(St, m, ub)
       IN /\ isEmscripten' = st.isEmscripten
          /\ envModule' = st.envModule
          /\ emEnvModule' = st.emEnvModule
          /\ emAsm2wasmModule' = st.emAsm2wasmModule
          /\ emGlobalModule' = st.emGlobalModule
          /\ module' = st.module
          /\ compartment' = st.compartment
          /\ pc' = IF st.pc = "crashed" THEN "crashed" ELSE "returned"
          /\ steps' = st.steps
    /\ call' = [NoCall EXCEPT !.op = "setUp", !.module = m]
    /\ log' = <<>>
    /\ ret' = FALSE
    /\ resolved' = Null
    /\ nSetUps' = nSetUps + 1
    /\ user' = user

(***************************************************************************)
(* cleanUp (RootResolver.h:130-136) and setUser (RootResolver.h:73-75).    *)
(***************************************************************************)
\* Mutant: the last handle is not released.
CleanUp_KeepsGlobal ==
    /\ pc = "ready"
    /\ envModule' = NullHandle
    /\ emEnvModule' = NullHandle
    /\ emAsm2wasmModule' = NullHandle
    /\ emGlobalModule' = emGlobalModule
    /\ call' = [NoCall EXCEPT !.op = "cleanUp"]
    /\ steps' = <<>>
    /\ log' = <<>>
    /\ ret' = FALSE
    /\ resolved' = Null
    /\ pc' = "returned"
    /\ UNCHANGED <<isEmscripten, user, module, compartment, nSetUps>>

CleanUp ==
    /\ pc = "ready"
    /\ envModule' = NullHandle
    /\ emEnvModule' = NullHandle
    /\ emAsm2wasmModule' = NullHandle
    /\ emGlobalModule' = NullHandle
    /\ call' = [NoCall EXCEPT !.op = "cleanUp"]
    /\ steps' = <<>>
    /\ log' = <<>>
    /\ ret' = FALSE
    /\ resolved' = Null
    /\ pc' = "returned"
    /\ UNCHANGED <<isEmscripten, user, module, compartment, nSetUps>>

Users == {"demo"}

SetUser(userIn) ==
    /\ pc = "ready"
    /\ user' = userIn
    /\ call' = [NoCall EXCEPT !.op = "setUser"]
    /\ steps' = <<>>
    /\ log' = <<>>
    /\ ret' = FALSE
    /\ resolved' = Null
    /\ pc' = "returned"
    /\ UNCHANGED <<isEmscripten, envModule, emEnvModule, emAsm2wasmModule,
                   emGlobalModule, module, compartment, nSetUps>>

(***************************************************************************)
(* resolve (RootResolver.h:138-177).                                       *)
(***************************************************************************)
ModuleNames == {"env", "asm2wasm", "global", "global.Math", "wasi_unstable"}
ExportNames == {"memcpy", "NaN", "f64-to-int", "f64-rem", "memory", "table"}
DeclaredTypes ==
    {FunctionType(1), FunctionType(2), GlobalType(2),
     MemoryType(INITIAL_EMSCRIPTEN_PAGES, MAX_EMSCRIPTEN_PAGES),
     TableType(EMSCRIPTEN_MIN_TABLE_ELEMS, EMSCRIPTEN_MAX_TABLE_ELEMS)}
\* Objects the caller's `resolved` may hold on entry besides null.
StrayObjects == {Function("stray.f", 1), Global("stray.g", 2)}
ResolvedIns == {Null} \cup StrayObjects
\* getInstanceExport through an empty handle dereferences null: the build
\* either aborts or reads some object (or null) out of whatever is there.
ResolveUB ==
    {[crash |-> TRUE, object |-> Null]}
        \cup {[crash |-> FALSE, object |-> o] : o \in ResolvedIns}

\* Mutant: "global.Math" is not taken for the global collection.
SelectedHandle_NoGlobalMath(isEm, moduleName) ==
    IF isEm
    THEN IF moduleName = "env" THEN "emEnvModule"
         ELSE IF moduleName = "asm2wasm" THEN "emAsm2wasmModule"
         ELSE IF moduleName = "global" THEN "emGlobalModule"
         ELSE "none"
    ELSE "envModule"

\* Lines 144-158: the handle the lookup goes through ("none": no lookup).
SelectedHandle(isEm, moduleName) ==
    IF isEm
    THEN IF moduleName = "env" THEN "emEnvModule"
         ELSE IF moduleName = "asm2wasm" THEN "emAsm2wasmModule"
         ELSE IF moduleName = "global" \/ moduleName = "global.Math" THEN "emGlobalModule"
         ELSE "none"
    ELSE "envModule"

HandleValue(st, h) ==
    CASE h = "envModule" -> st.envModule
      [] h = "emEnvModule" -> st.emEnvModule
      [] h = "emAsm2wasmModule" -> st.emAsm2wasmModule
      [] h = "emGlobalModule" -> st.emGlobalModule
      [] OTHER -> NullHandle

Diag(reason, moduleName, exportName, actual, expected) ==
    [reason |-> reason, moduleName |-> moduleName, exportName |-> exportName,
     actual |-> actual, expected |-> expected]

\* Mutant: any non-null `resolved` is accepted without the isA check.
checkResolved_NoTypeCheck(found, moduleName, exportName, type, emitted) ==
    IF found # Null
    THEN [ret |-> TRUE, resolved |-> found, log |-> emitted]
    ELSE [ret |-> FALSE, resolved |-> found,
          log |-> Append(emitted, Diag("MissingImport", moduleName, exportName, "", type.kind))]

\* Lines 160-176: the check of what `resolved` holds after the lookup.
checkResolved(found, moduleName, exportName, type, emitted) ==
    IF found # Null
    THEN IF isA(found, type)
         THEN [ret |-> TRUE, resolved |-> found, log |-> emitted]
         ELSE [ret |-> FALSE, resolved |-> found,
               log |-> Append(emitted,
                   Diag("TypeMismatch", moduleName, exportName, found.kind, type.kind))]
    ELSE [ret |-> FALSE, resolved |-> found,
          log |-> Append(emitted, Diag("MissingImport", moduleName, exportName, "", type.kind))]

\* What the build may do at the lookup: one outcome on a live handle or with
\* no lookup, any of ResolveUB through an empty handle.
ResolveOutcomes(st, moduleName) ==
    LET sel == SelectedHandle(st.isEmscripten, moduleName)
    IN IF sel # "none" /\ HandleValue(st, sel) = NullHandle
       THEN ResolveUB
       ELSE {[crash |-> FALSE, object |-> Null]}

\* The whole call: [crashed, ret, resolved, log, steps].
resolve(st, moduleName, exportName, type, resolvedIn, ub) ==
    LET sel == SelectedHandle(st.isEmscripten, moduleName)
        handle == HandleValue(st, sel)
    IN
    IF sel = "none"
    THEN \* line 153: `resolved` keeps the value it had on entry
         [crashed |-> FALSE, steps |-> <<>>]
            @@ checkResolved(resolvedIn, moduleName, exportName, type,
                    <<Diag("UnrecognisedModule", moduleName, "", "", "")>>)
    ELSE IF handle = NullHandle
    THEN IF ub.crash
         THEN [crashed |-> TRUE, steps |-> <<sel>>, ret |-> FALSE,
               resolved |-> resolvedIn, log |-> <<>>]
         ELSE [crashed |-> FALSE, steps |-> <<sel>>]
                @@ checkResolved(ub.object, moduleName, exportName, type, <<>>)
    ELSE [crashed |-> FALSE, steps |-> <<sel>>]
            @@ checkResolved(getInstanceExport(handle, exportName),
                    moduleName, exportName, type, <<>>)

\* Mutant: a lookup through the global collection releases its handle.
Resolve_ReleasesHandle(moduleName, exportName, type, resolvedIn, ub) ==
    /\ pc = "ready"
    /\ ub \in ResolveOutcomes(St, moduleName)
    /\ LET r == resolve(St, moduleName, exportName, type, resolvedIn, ub)
       IN /\ pc' = IF r.crashed THEN "crashed" ELSE "returned"
          /\ ret' = r.ret
          /\ resolved' = r.resolved
          /\ log' = r.log
          /\ steps' = r.steps
          /\ emGlobalModule' =
                IF r.steps = <<"emGlobalModule">> THEN NullHandle ELSE emGlobalModule
    /\ call' = [NoCall EXCEPT !.op = "resolve", !.moduleName = moduleName,
                              !.exportName = exportName, !.type = type,
                              !.resolvedIn = resolvedIn]
    /\ UNCHANGED <<isEmscripten, envModule, emEnvModule, emAsm2wasmModule,
                   user, module, compartment, nSetUps>>

Resolve(moduleName, exportName, type, resolvedIn, ub) ==
    /\ pc = "ready"
    /\ ub \in ResolveOutcomes(St, moduleName)
    /\ LET r == resolve(St, moduleName, exportName, type, resolvedIn, ub)
       IN /\ pc' = IF r.crashed THEN "crashed" ELSE "returned"
          /\ ret' = r.ret
          /\ resolved' = r.resolved
          /\ log' = r.log
          /\ steps' = r.steps
    /\ call' = [NoCall EXCEPT !.op = "resolve", !.moduleName = moduleName,
                              !.exportName = exportName, !.type = type,
                              !.resolvedIn = resolvedIn]
    /\ UNCHANGED <<isEmscripten, envModule, emEnvModule, emAsm2wasmModule,
                   emGlobalModule, user, module, compartment, nSetUps>>

(***************************************************************************)
(* The resolver after construction (RootResolver.h:69-71, 179-188), with   *)
(* the module about to be linked, and its public operations.               *)
(***************************************************************************)
Init ==
    /\ isEmscripten = FALSE
    /\ envModule = NullHandle
    /\ emEnvModule = NullHandle
    /\ emAsm2wasmModule = NullHandle
    /\ emGlobalModule = NullHandle
    /\ user = ""
    /\ module = EmptyModule
    /\ compartment = EmptyCompartment
    /\ pc = "ready"
    /\ call = NoCall
    /\ steps = <<>>
    /\ ret = FALSE
    /\ resolved = Null
    /\ log = <<>>
    /\ nSetUps = 0

\* The caller takes the call's result and goes on to its next call.
Return ==
    /\ pc = "returned"
    /\ pc' = "ready"
    /\ call' = NoCall
    /\ steps' = <<>>
    /\ ret' = FALSE
    /\ resolved' = Null
    /\ log' = <<>>
    /\ UNCHANGED <<isEmscripten, envModule, emEnvModule, emAsm2wasmModule,
                   emGlobalModule, user, module, compartment, nSetUps>>

Next ==
    \/ \E m \in Modules, ub \in UBOutcomes : SetUp(m, ub)
    \/ \E moduleName \in ModuleNames, exportName \in ExportNames,
          type \in DeclaredTypes, resolvedIn \in ResolvedIns, ub \in ResolveUB :
            Resolve(moduleName, exportName, type, resolvedIn, ub)
    \/ CleanUp
    \/ \E userIn \in Users : SetUser(userIn)
    \/ Return

Spec == Init /\ [][Next]_vars

(***************************************************************************)
(* Properties.                                                             *)
(***************************************************************************)
\* The state a call of `op` has just returned into.
Returned(op) == pc = "returned" /\ call.op = op
\* setUp has run on the standard path and its handle is still held.
OnStandardPath == ~isEmscripten /\ envModule # NullHandle
\* setUp has run on the legacy path and its handles are still held.
OnLegacyPath ==
    /\ isEmscripten
    /\ emEnvModule # NullHandle
    /\ emAsm2wasmModule # NullHandle
    /\ emGlobalModule # NullHandle
LegacyModuleNames == {"env", "asm2wasm", "global", "global.Math"}

\* C1: whenever resolve returns true, the object left in `resolved` is
\* non-null and isA the declared type; and an export the lookup found whose
\* type is not compatible with the declared type makes resolve return false.
C1_TypeGate ==
    Returned("resolve") =>
        /\ ret = TRUE => (resolved # Null /\ isA(resolved, call.type))
        /\ \A h \in {"envModule", "emEnvModule", "emAsm2wasmModule", "emGlobalModule"} :
              LET found == getInstanceExport(HandleValue(St, h), call.exportName)
              IN (steps = <<h>> /\ HandleValue(St, h) # NullHandle
                    /\ found # Null /\ ~isA(found, call.type)) => ret = FALSE

\* C1 witness: a lookup found an export of another type and resolve said no.
C1_Witness ==
    /\ Returned("resolve")
    /\ steps = <<"emGlobalModule">>
    /\ emGlobalModule # NullHandle
    /\ call.exportName = "NaN"
    /\ call.type = FunctionType(1)
    /\ resolved = getIntrinsicModule_emGlobal["NaN"]
    /\ ret = FALSE

\* C2: on the standard path resolve("env", X, T) returns true exactly when the
\* standard env collection exports X with a type compatible with T; it then
\* leaves that export in `resolved`; an absent X is reported as a missing
\* import and an incompatible type as a type mismatch.
C2_StandardEnv ==
    (Returned("resolve") /\ OnStandardPath /\ call.moduleName = "env") =>
        LET X == call.exportName
            T == call.type
            exported == X \in DOMAIN getIntrinsicModule_env
        IN /\ ret = TRUE <=> (exported /\ isA(getIntrinsicModule_env[X], T))
           /\ ret = TRUE => resolved = getIntrinsicModule_env[X]
           /\ ~exported =>
                log = <<Diag("MissingImport", "env", X, "", T.kind)>>
           /\ (exported /\ ~isA(getIntrinsicModule_env[X], T)) =>
                log = <<Diag("TypeMismatch", "env", X,
                             getIntrinsicModule_env[X].kind, T.kind)>>

\* C2 witness: scenario A, env.memcpy resolved to the standard export.
C2_Witness ==
    /\ Returned("resolve")
    /\ OnStandardPath
    /\ call.moduleName = "env"
    /\ call.exportName = "memcpy"
    /\ ret = TRUE
    /\ resolved = Function("env.memcpy", 1)

\* C3: on the standard path resolve with any module name other than "env"
\* returns false with an unrecognised-module diagnostic and looks nothing up.
C3_StandardOtherModule ==
    (Returned("resolve") /\ OnStandardPath /\ call.moduleName # "env") =>
        /\ ret = FALSE
        /\ steps = <<>>
        /\ \E i \in 1..Len(log) : log[i].reason = "UnrecognisedModule"

\* C4: on the legacy path resolve with a module name outside env, asm2wasm,
\* global and global.Math returns false, whatever `resolved` held on entry.
C4_LegacyOtherModule ==
    (Returned("resolve") /\ OnLegacyPath /\ call.moduleName \notin LegacyModuleNames) =>
        ret = FALSE

\* The collection a legacy module name stands for.
LegacyCollection(moduleName) ==
    CASE moduleName = "env" -> emEnvModule.exports
      [] moduleName = "asm2wasm" -> getIntrinsicModule_emAsm2wasm
      [] OTHER -> getIntrinsicModule_emGlobal

\* C5: on the legacy path resolve(moduleName, X, T) with one of the four
\* legacy module names returns true exactly when the collection of that name
\* (the legacy env with the injected memory and table, asm2wasm, or the one
\* global collection) exports X with a type compatible with T; an X absent
\* from that collection is a missing import, and a global requested as a
\* function is a type mismatch.
C5_LegacyDispatch ==
    (Returned("resolve") /\ OnLegacyPath /\ call.moduleName \in LegacyModuleNames) =>
        LET X == call.exportName
            T == call.type
            coll == LegacyCollection(call.moduleName)
            exported == X \in DOMAIN coll
        IN /\ \A n \in DOMAIN getIntrinsicModule_emEnv :
                emEnvModule.exports[n] = getIntrinsicModule_emEnv[n]
           /\ DOMAIN emEnvModule.exports =
                DOMAIN getIntrinsicModule_emEnv \cup {"memory", "table"}
           /\ ret = TRUE <=> (exported /\ isA(coll[X], T))
           /\ ret = TRUE => resolved = coll[X]
           /\ ~exported =>
                /\ ret = FALSE
                /\ log = <<Diag("MissingImport", call.moduleName, X, "", T.kind)>>
           /\ (exported /\ coll[X].kind = "global" /\ T.kind = "function") =>
                /\ ret = FALSE
                /\ log = <<Diag("TypeMismatch", call.moduleName, X, "global", "function")>>

\* C5 witness: global.Math.NaN resolved from the global collection.
C5_Witness ==
    /\ Returned("resolve")
    /\ OnLegacyPath
    /\ call.moduleName = "global.Math"
    /\ call.exportName = "NaN"
    /\ ret = TRUE
    /\ resolved = Global("emGlobal.NaN", 2)

\* setUp has just run (to its return, or into an abort) on a module.
AfterSetUp == pc \in {"returned", "crashed"} /\ call.op = "setUp"
\* The module handed to that setUp lacks a section the legacy path indexes.
LacksLegacyImports(m) == m.memImports = <<>> \/ m.tableImports = <<>>

\* C6: setUp of a module with a memory definition sets isEmscripten = false
\* and runs the standard setup only; setUp of any other module sets
\* isEmscripten = true and runs the legacy setup only.
C6_Classify ==
    AfterSetUp =>
        IF call.module.memDefs # <<>>
        THEN isEmscripten = FALSE /\ steps = <<"setUpStandardToolchain">>
        ELSE isEmscripten = TRUE /\ steps = <<"setUpEmscripten">>

\* C6 witness: a standard setUp that followed a legacy one on the same resolver.
C6_Witness ==
    /\ AfterSetUp
    /\ nSetUps = 2
    /\ call.module.memDefs # <<>>
    /\ emEnvModule # NullHandle
    /\ isEmscripten = FALSE

\* C7: after setUp on the standard path the module's first memory definition
\* has min = 240 and max = 16384 pages, whatever it declared.
C7_StandardLimits ==
    (AfterSetUp /\ call.module.memDefs # <<>>) =>
        /\ module.memDefs # <<>>
        /\ module.memDefs[1].min = 240
        /\ module.memDefs[1].max = 16384

\* C7 witness: a module that declared more than the standard limits.
C7_Witness ==
    /\ Returned("setUp")
    /\ call.module.memDefs = <<[min |-> 300, max |-> 70000]>>
    /\ module.memDefs = <<[min |-> 240, max |-> 16384]>>

\* The memory and the table the most recent legacy setup created.
LastMemory == compartment.memories[Len(compartment.memories)]
LastTable == compartment.tables[Len(compartment.tables)]

\* C8: after setUp on the legacy path of a module with an imported memory and
\* an imported table, that import and the memory created from it have
\* min = 16384 and max = 33554432 pages, and the imported table and the table
\* created from it have min = 40000000 and max = 60000000 elements.
C8_LegacyLimits ==
    (AfterSetUp /\ call.module.memDefs = <<>> /\ ~LacksLegacyImports(call.module)) =>
        /\ pc = "returned"
        /\ module.memImports[1] = [min |-> 16384, max |-> 33554432]
        /\ module.tableImports[1] = [min |-> 40000000, max |-> 60000000]
        /\ compartment.memories # <<>> /\ compartment.tables # <<>>
        /\ LastMemory.size = [min |-> 16384, max |-> 2048 * 1024 * 16]
        /\ LastTable.size = [min |-> 40000000, max |-> 60000000]
        /\ emEnvModule.exports["memory"] =
                MemoryObject("env.memory", [min |-> 16384, max |-> 33554432],
                             Len(compartment.memories))
        /\ emEnvModule.exports["table"] =
                TableObject("env.table", [min |-> 40000000, max |-> 60000000],
                            Len(compartment.tables))

\* C8 witness: the declared limits lay on either side of the legacy ones.
C8_Witness ==
    /\ Returned("setUp")
    /\ call.module.memImports = <<[min |-> 300, max |-> 70000]>>
    /\ call.module.tableImports = <<[min |-> 1, max |-> 2]>>
    /\ LastMemory.size.min = 16384
    /\ LastTable.size.max = 60000000

\* C9: when setUp on the legacy path returns, the MutableGlobals block at byte
\* offset 63 * 65536 of the memory it created holds DYNAMICTOP_PTR =
\* 256 * 65536, _stderr = 1, _stdin = 2 and _stdout = 3; setUp on the standard
\* path creates no memory or table and writes to none.
C9_MutableGlobals ==
    [][(pc = "ready" /\ pc' = "returned" /\ call'.op = "setUp") =>
        IF call'.module.memDefs = <<>>
        THEN /\ Len(compartment'.memories) = Len(compartment.memories) + 1
             /\ SubSeq(compartment'.memories, 1, Len(compartment.memories))
                    = compartment.memories
             /\ LET block == LastMemory'.data[63 * 65536]
                IN /\ block.DYNAMICTOP_PTR = 256 * 65536
                   /\ block._stderr = 1
                   /\ block._stdin = 2
                   /\ block._stdout = 3
                   /\ block.tempDoublePtr = 0
             /\ \A a \in BlockAddresses \ {63 * 65536} :
                    LastMemory'.data[a] = ZeroGlobals
        ELSE /\ compartment'.memories = compartment.memories
             /\ compartment'.tables = compartment.tables
      ]_vars

\* C9 witness: a legacy setUp has returned with the block patched.
C9_Witness ==
    /\ Returned("setUp")
    /\ isEmscripten
    /\ compartment.memories # <<>>
    /\ LastMemory.data[MutableGlobalsAddress]._stdout = 3

\* C10: setUp of a module with no memory definition that lacks the imported
\* memory or table returns with a MissingRequiredSection report, having
\* created nothing, written no limit and set no handle.
C10_MissingSection ==
    [][(pc = "ready" /\ call'.op = "setUp" /\ call'.module.memDefs = <<>>
            /\ LacksLegacyImports(call'.module)) =>
        /\ pc' = "returned"
        /\ \E i \in 1..Len(log') : log'[i].reason = "MissingRequiredSection"
        /\ compartment' = compartment
        /\ module' = call'.module
        /\ UNCHANGED <<envModule, emEnvModule, emAsm2wasmModule, emGlobalModule>>
      ]_vars

\* The four module handles.
handles == <<envModule, emEnvModule, emAsm2wasmModule, emGlobalModule>>
AllHandlesEmpty == handles = <<NullHandle, NullHandle, NullHandle, NullHandle>>

\* C11: cleanUp can be called whenever the resolver is ready for a call
\* (before setUp, after setUp on either path, between resolve calls, after a
\* failed resolve); it returns with all four handles empty and touches
\* nothing else; called with the handles already empty (a second cleanUp)
\* it changes nothing.
C11_CleanUp ==
    /\ [](pc = "ready" => ENABLED CleanUp)
    /\ [][(pc = "ready" /\ call'.op = "cleanUp") =>
            /\ pc' = "returned"
            /\ AllHandlesEmpty'
            /\ UNCHANGED <<isEmscripten, user, module, compartment>>
            /\ AllHandlesEmpty => UNCHANGED handles
         ]_vars

\* C11 witness: cleanUp has returned on a resolver whose legacy and standard
\* setups had both created instances.
C11_Witness ==
    /\ Returned("cleanUp")
    /\ nSetUps = 2
    /\ Len(compartment.instances) = 4
    /\ AllHandlesEmpty

\* The handles resolve may look through under a given value of the flag.
HandlesFor(isEm) ==
    IF isEm THEN {"emEnvModule", "emAsm2wasmModule", "emGlobalModule"} ELSE {"envModule"}

\* C12: once the first setUp has set isEmscripten, no later setUp, resolve,
\* cleanUp or setUser changes it, and every later resolve dispatches on it.
C12_FlagReadOnly ==
    [][nSetUps >= 1 =>
        /\ isEmscripten' = isEmscripten
        /\ (call'.op = "resolve" /\ steps' # <<>>) => steps'[1] \in HandlesFor(isEmscripten)
      ]_vars

\* C13: the standard handle and a legacy handle are never non-empty together,
\* and the three legacy handles are all empty or all non-empty.
C13_OneShape ==
    /\ ~(envModule # NullHandle
            /\ (emEnvModule # NullHandle \/ emAsm2wasmModule # NullHandle
                    \/ emGlobalModule # NullHandle))
    /\ \/ (emEnvModule = NullHandle /\ emAsm2wasmModule = NullHandle
                /\ emGlobalModule = NullHandle)
       \/ (emEnvModule # NullHandle /\ emAsm2wasmModule # NullHandle
                /\ emGlobalModule # NullHandle)

\* C14: a resolve call made while the handles of setUp are held does not
\* abort; when it returns false it has emitted exactly one diagnostic, whose
\* reason is unrecognised module, missing import or type mismatch and which
\* names the module and the export; when it returns true it has emitted none.
C14_OneDiagnostic ==
    (call.op = "resolve" /\ (OnStandardPath \/ OnLegacyPath)) =>
        /\ pc = "returned"
        /\ ret = FALSE =>
            /\ Len(log) = 1
            /\ log[1].reason \in {"UnrecognisedModule", "MissingImport", "TypeMismatch"}
            /\ log[1].moduleName = call.moduleName
            /\ log[1].exportName = call.exportName
        /\ ret = TRUE => log = <<>>

\* C15: resolve never looks an export up through an empty handle, whatever
\* setUp, resolve and cleanUp calls came before it.
C15_NoEmptyLookup ==
    (call.op = "resolve" /\ steps # <<>>) => HandleValue(St, steps[1]) # NullHandle

\* C16: a resolve call, whatever it returns, leaves isEmscripten, the four
\* handles, the module's limits, the compartment (its objects and the
\* MutableGlobals block) and the user unchanged; so, while the handles of
\* setUp are held, the same call made again gives the same return value,
\* the same `resolved` and the same diagnostics.
C16_ReadOnly ==
    [][(pc = "ready" /\ call'.op = "resolve") =>
        /\ UNCHANGED <<isEmscripten, handles, module, compartment, user>>
        /\ (pc' = "returned" /\ (OnStandardPath \/ OnLegacyPath)) =>
              \A ub \in ResolveOutcomes(St', call'.moduleName) :
                LET again == resolve(St', call'.moduleName, call'.exportName,
                                     call'.type, call'.resolvedIn, ub)
                IN /\ ~again.crashed
                   /\ again.ret = ret'
                   /\ again.resolved = resolved'
                   /\ again.log = log'
      ]_vars

\* C16 witness: a resolve through the global collection has failed on the
\* legacy path and the handles and the patched memory are still there.
C16_Witness ==
    /\ Returned("resolve")
    /\ OnLegacyPath
    /\ steps = <<"emGlobalModule">>
    /\ ret = FALSE
    /\ Len(log) = 1
    /\ LastMemory.data[MutableGlobalsAddress].DYNAMICTOP_PTR = EMSCRIPTEN_STACK_MAX

\* The declared types of the module's memory and table imports after setUp.
LegacyMemoryType == MemoryType(INITIAL_EMSCRIPTEN_PAGES, MAX_EMSCRIPTEN_PAGES)
LegacyTableType == TableType(EMSCRIPTEN_MIN_TABLE_ELEMS, EMSCRIPTEN_MAX_TABLE_ELEMS)

\* C17: on the legacy path resolve("env", "memory", memory type) and
\* resolve("env", "table", table type) return true with the memory and the
\* table the most recent setUp created (the memory carrying the legacy limits
\* and the patched MutableGlobals block); the same two exports asked of
\* "asm2wasm", "global" or "global.Math" are not found.
C17_EnvMemoryTable ==
    (Returned("resolve") /\ OnLegacyPath /\ call.moduleName \in LegacyModuleNames) =>
        /\ (call.exportName = "memory" /\ call.type = LegacyMemoryType) =>
              IF call.moduleName = "env"
              THEN /\ ret = TRUE
                   /\ resolved.kind = "memory"
                   /\ resolved.id = Len(compartment.memories)
                   /\ compartment.memories[resolved.id].size = EmscriptenMemorySize
                   /\ <<resolved.min, resolved.max>> =
                        <<EmscriptenMemorySize.min, EmscriptenMemorySize.max>>
                   /\ compartment.memories[resolved.id].data[MutableGlobalsAddress]
                        = [ZeroGlobals EXCEPT !.DYNAMICTOP_PTR = EMSCRIPTEN_STACK_MAX,
                                              !._stderr = 1, !._stdin = 2, !._stdout = 3]
              ELSE ret = FALSE /\ resolved = Null
        /\ (call.exportName = "table" /\ call.type = LegacyTableType) =>
              IF call.moduleName = "env"
              THEN /\ ret = TRUE
                   /\ resolved.kind = "table"
                   /\ resolved.id = Len(compartment.tables)
                   /\ compartment.tables[resolved.id].size = EmscriptenTableSize
                   /\ <<resolved.min, resolved.max>> =
                        <<EmscriptenTableSize.min, EmscriptenTableSize.max>>
              ELSE ret = FALSE /\ resolved = Null

\* C17 witness: env.table resolved to the table of the second legacy setUp.
C17_Witness ==
    /\ Returned("resolve")
    /\ OnLegacyPath
    /\ call.moduleName = "env"
    /\ call.exportName = "table"
    /\ ret = TRUE
    /\ resolved = TableObject("env.table", EmscriptenTableSize, 2)

\* C18: the MutableGlobals block lies inside the committed part of the memory
\* a legacy setUp creates: its byte offset 63 * 65536 plus its size is at
\* most the memory's minimum size in bytes, 16384 * 65536.
C18_WriteInBounds ==
    (Returned("setUp") /\ call.module.memDefs = <<>>) =>
        /\ SizeOf(MutableGlobalsMembers) = 32
        /\ LastMemory.size.min = 16384
        /\ MutableGlobalsAddress = 63 * 65536
        /\ MutableGlobalsAddress + SizeOf(MutableGlobalsMembers)
                <= LastMemory.size.min * numBytesPerPage

\* C18 witness: the module had declared a one-page minimum, below the offset.
C18_Witness ==
    /\ Returned("setUp")
    /\ call.module.memImports = <<[min |-> 1, max |-> 2]>>
    /\ call.module.tableImports # <<>>
    /\ LastMemory.size.min * numBytesPerPage > MutableGlobalsAddress

\* The largest value of a 32-bit signed int.
Int32Max == (1024 * 1024 * 1024 - 1) * 2 + 1
FitsInt32(v) == v >= -Int32Max - 1 /\ v <= Int32Max
\* a * b, for a, b > 0, does not overflow an int.
ProductFitsInt32(a, b) == a <= Int32Max \div b

\* C19: every limit pair setUp writes has min <= max (240 <= 16384 pages,
\* 16384 <= 33554432 pages, 40000000 <= 60000000 elements), in the module and
\* in the objects created; the MutableGlobals block [63 pages, 63 pages + size)
\* lies below EMSCRIPTEN_STACKTOP (64 pages); EMSCRIPTEN_STACKTOP <
\* EMSCRIPTEN_STACK_MAX; EMSCRIPTEN_STACK_MAX (256 pages) lies below the legacy
\* minimum memory size (16384 pages); and every constant fits a 32-bit int.
C19_Constants ==
    /\ StandardSize = [min |-> 240, max |-> 16384]
    /\ EmscriptenMemorySize = [min |-> 16384, max |-> 33554432]
    /\ EmscriptenTableSize = [min |-> 40000000, max |-> 60000000]
    /\ \A i \in 1..Len(module.memDefs) : module.memDefs[i].min <= module.memDefs[i].max
    /\ \A i \in 1..Len(module.memImports) :
            module.memImports[i].min <= module.memImports[i].max
    /\ \A i \in 1..Len(module.tableImports) :
            module.tableImports[i].min <= module.tableImports[i].max
    /\ \A i \in 1..Len(compartment.memories) :
            compartment.memories[i].size.min <= compartment.memories[i].size.max
    /\ \A i \in 1..Len(compartment.tables) :
            compartment.tables[i].size.min <= compartment.tables[i].size.max
    /\ MutableGlobalsAddress + SizeOf(MutableGlobalsMembers) <= EMSCRIPTEN_STACKTOP
    /\ EMSCRIPTEN_STACKTOP = 64 * 65536
    /\ EMSCRIPTEN_STACKTOP < EMSCRIPTEN_STACK_MAX
    /\ EMSCRIPTEN_STACK_MAX = 256 * 65536
    /\ EMSCRIPTEN_STACK_MAX < INITIAL_EMSCRIPTEN_PAGES * numBytesPerPage
    /\ ProductFitsInt32(1024, ONE_MB_PAGES)
    /\ ProductFitsInt32(15, ONE_MB_PAGES)
    /\ ProductFitsInt32(2048, ONE_GB_PAGES)
    /\ ProductFitsInt32(64, numBytesPerPage)
    /\ ProductFitsInt32(256, numBytesPerPage)
    /\ \A v \in {ONE_MB_PAGES, ONE_GB_PAGES, INITIAL_MEMORY_PAGES, MAX_MEMORY_PAGES,
                  EMSCRIPTEN_MIN_TABLE_ELEMS, EMSCRIPTEN_MAX_TABLE_ELEMS,
                  INITIAL_EMSCRIPTEN_PAGES, MAX_EMSCRIPTEN_PAGES,
                  EMSCRIPTEN_STACKTOP, EMSCRIPTEN_STACK_MAX} : FitsInt32(v)

\* C19 witness: one resolver has written both the legacy and the standard limits.
C19_Witness ==
    /\ Returned("setUp")
    /\ module.memDefs = <<StandardSize>>
    /\ Len(compartment.memories) = 1
    /\ Len(compartment.tables) = 1
    /\ compartment.tables[1].size = EmscriptenTableSize

=============================================================================
